---------------------------- MODULE Spec2Model ----------------------------
(***************************************************************************)
(* Reviewer-matching pipeline of src/main.py: the author-profile cache,    *)
(* compute_fitness (two aggregation policies, semantic_search ranking),    *)
(* the sequential justification loop and the output file.                  *)
(*                                                                         *)
(* Numbers.  An embedding is a 2-dimensional vector kept as integers: a    *)
(* vector <<x, y, den>> stands for (x / (VecScale*den), y / (VecScale*den)).*)
(* The embedding provider returns unit vectors (den = 1, x*x + y*y =       *)
(* VecScale^2).  A float score is kept in thousandths (ScoreScale); the    *)
(* float NaN is the value NaN, which compares false with everything.       *)
(***************************************************************************)
EXTENDS Integers, Sequences, FiniteSets, TLC

(* ------------------------------ bounds -------------------------------- *)
\* authors in a pool of summaries; authors in a pool that carries publication
\* lists (the raw database, the profiles); publications per author; runs of main()
MaxAuthors == 3
MaxPubAuthors == 2
MaxPubs == 2
MaxRuns == 2

(* --------------------------- value domains ---------------------------- *)
VecScale == 5
ScoreScale == 1000
NaN == ScoreScale * 10

Policies == {"aggregate", "summarize"}
AnyPolicy == Policies \cup {"average"}

PubTitles == {"T1", "T2"}
PubAbstracts == {"X"}
Publications == [title : PubTitles, abstract : PubAbstracts]
Summaries == {<<"S1">>, <<"S2">>}

SeqsUpTo(S, n) == UNION {[1..k -> S] : k \in 0..n}
NonEmptySeqsUpTo(S, n) == UNION {[1..k -> S] : k \in 1..n}
Reverse(s) == [i \in 1..Len(s) |-> s[Len(s) + 1 - i]]

(* ---------------------------- build_query ----------------------------- *)
\* f"Title: {d['title']}\nAbstract: {d['abstract']}"; a missing key raises KeyError
HasKeys(d) == {"title", "abstract"} \subseteq DOMAIN d
build_query(d) == <<"Title: ", d.title, "\nAbstract: ", d.abstract>>

(* ------------------------- embedding provider ------------------------- *)
\* model.encode(text, normalize_embeddings=True): one unit vector per text
Encode(text) ==
    CASE text = <<"S1">> -> <<3, 4, 1>>
      [] text = <<"S2">> -> <<4, -3, 1>>
      [] Len(text) = 4 /\ text[2] = "T1" -> <<3, 4, 1>>
      [] Len(text) = 4 /\ text[2] = "T2" -> <<4, -3, 1>>
      [] Len(text) = 4 /\ text[4] = "Z" -> <<5, 0, 1>>
      [] OTHER -> <<0, 5, 1>>
EncodeBatch(texts) == [i \in 1..Len(texts) |-> Encode(texts[i])]

(* ------------------------------ numpy --------------------------------- *)
RECURSIVE SumSeq(_)
SumSeq(s) == IF s = <<>> THEN 0 ELSE s[1] + SumSeq(Tail(s))
\* np.cumsum(s)
cumsum(s) == [i \in 1..Len(s) |-> SumSeq(SubSeq(s, 1, i))]
\* sum(lists, []): concatenation in order
RECURSIVE Flatten(_)
Flatten(ls) == IF ls = <<>> THEN <<>> ELSE ls[1] \o Flatten(Tail(ls))

(* --------------------------- torch.mean ------------------------------- *)
\* mean over dim 0 of rows (unit vectors); an empty slice gives NaN components
NaNVec == <<0, 0, 0>>
RECURSIVE SumX(_)
SumX(vs) == IF vs = <<>> THEN 0 ELSE vs[1][1] + SumX(Tail(vs))
RECURSIVE SumY(_)
SumY(vs) == IF vs = <<>> THEN 0 ELSE vs[1][2] + SumY(Tail(vs))
TorchMean(vs) == IF vs = <<>> THEN NaNVec ELSE <<SumX(vs), SumY(vs), Len(vs)>>
\* tensor[l:h] with 0-based bounds l, h
Slice(t, l, h) == SubSeq(t, l + 1, h)

(* ------------------- sentence_transformers.util.cos_sim --------------- *)
RECURSIVE ISqrtIn(_, _, _)
ISqrtIn(n, lo, hi) ==
    IF lo >= hi THEN lo
    ELSE LET mid == (lo + hi + 1) \div 2
         IN  IF mid * mid <= n THEN ISqrtIn(n, mid, hi) ELSE ISqrtIn(n, lo, mid - 1)
ISqrt(n) == ISqrtIn(n, 0, 46340)
IsNaNVec(v) == v[3] = 0
Dot(a, b) == a[1] * b[1] + a[2] * b[2]
\* cos_sim normalises both arguments (a zero vector stays zero: norm clamped to eps)
\* and returns their dot product, here in thousandths
cos_sim(q, v) ==
    IF IsNaNVec(q) \/ IsNaNVec(v) THEN NaN
    ELSE IF Dot(q, q) = 0 \/ Dot(v, v) = 0 THEN 0
    ELSE (ScoreScale * 100 * Dot(q, v)) \div ISqrt(Dot(q, q) * Dot(v, v) * 100 * 100)

(* --------------------------- float comparison ------------------------- *)
FloatLt(a, b) == a # NaN /\ b # NaN /\ a < b
FloatEq(a, b) == a # NaN /\ b # NaN /\ a = b
FloatGe(a, b) == a # NaN /\ b # NaN /\ a >= b
\* Python tuple (score, corpus_id) < (score, corpus_id)
TupleLt(s, t) ==
    IF FloatEq(s.score, t.score) THEN s.corpus_id < t.corpus_id
    ELSE FloatLt(s.score, t.score)

(* ------------------------------ heapq --------------------------------- *)
\* heapq._siftdown(heap, startpos = 0, pos): positions are 0-based
RECURSIVE SiftDown(_, _, _)
SiftDown(heap, pos, newitem) ==
    IF pos > 0 /\ TupleLt(newitem, heap[((pos - 1) \div 2) + 1])
    THEN SiftDown([heap EXCEPT ![pos + 1] = heap[((pos - 1) \div 2) + 1]],
                  (pos - 1) \div 2, newitem)
    ELSE [heap EXCEPT ![pos + 1] = newitem]
heappush(heap, item) == SiftDown(Append(heap, item), Len(heap), item)

(* ------------------- list.sort (CPython, n < 64) ---------------------- *)
\* count_run: length of the run starting the list, and whether it is descending
RECURSIVE RunEnd(_, _, _)
RunEnd(a, i, desc) ==
    IF i > Len(a) THEN Len(a)
    ELSE IF desc = FloatLt(a[i].score, a[i - 1].score) THEN RunEnd(a, i + 1, desc)
    ELSE i - 1
RunDescending(a) == Len(a) >= 2 /\ FloatLt(a[2].score, a[1].score)
count_run(a) == IF Len(a) <= 1 THEN Len(a) ELSE RunEnd(a, 3, RunDescending(a))
\* binarysort: insert a[start] into the sorted prefix a[1..start-1]
RECURSIVE BinaryPos(_, _, _, _)
BinaryPos(a, pivot, l, r) ==
    IF l >= r THEN l
    ELSE LET p == l + ((r - l) \div 2)
         IN  IF FloatLt(pivot.score, a[p].score) THEN BinaryPos(a, pivot, l, p)
             ELSE BinaryPos(a, pivot, p + 1, r)
InsertAt(a, start, pos) ==
    [i \in 1..Len(a) |->
        IF i < pos \/ i > start THEN a[i]
        ELSE IF i = pos THEN a[start] ELSE a[i - 1]]
RECURSIVE binarysort(_, _)
binarysort(a, start) ==
    IF start > Len(a) THEN a
    ELSE binarysort(InsertAt(a, start, BinaryPos(a, a[start], 1, start)), start + 1)
ReverseRun(a, n) == [i \in 1..Len(a) |-> IF i <= n THEN a[n + 1 - i] ELSE a[i]]
SortAscending(a) ==
    LET n == count_run(a)
        b == IF RunDescending(a) THEN ReverseRun(a, n) ELSE a
    IN  binarysort(b, n + 1)
\* sorted(list, key = score, reverse = True): reverse, stable ascending sort, reverse
SortedReverse(a) == Reverse(SortAscending(Reverse(a)))

(* --------------- sentence_transformers.util.semantic_search ----------- *)
\* torch.topk(scores, k = N, sorted = False) returns every index, in an order the
\* library does not specify: `order` (a permutation of 1..N) is that order.
TopkOrders(n) == {p \in [1..n -> 1..n] : \A i, j \in 1..n : p[i] = p[j] => i = j}
RECURSIVE PushAll(_, _, _, _)
PushAll(heap, scores, order, k) ==
    IF k > Len(order) THEN heap
    ELSE PushAll(heappush(heap, [score |-> scores[order[k]], corpus_id |-> order[k] - 1]),
                 scores, order, k + 1)
cos_scores(query_embedding, corpus_embedding) ==
    [i \in 1..Len(corpus_embedding) |-> cos_sim(query_embedding, corpus_embedding[i])]
\* the heap of (score, corpus_id) filled in topk's order, then sorted by score
top_k_sorted(scores, order) == SortedReverse(PushAll(<<>>, scores, order, 1))
semantic_search(query_embedding, corpus_embedding, order) ==
    top_k_sorted(cos_scores(query_embedding, corpus_embedding), order)

(* ------------------------- external collaborators --------------------- *)
\* process_data.build_author_profile: one profile per raw record; a record that
\* lacks its name or its publications is fatal for the whole build
WellFormed(rec) == {"name", "publications"} \subseteq DOMAIN rec
Summarize(pubs) ==
    IF pubs # <<>> /\ pubs[1].title = "T1" THEN <<"S1">> ELSE <<"S2">>
build_author_profile(raw) ==
    [i \in 1..Len(raw) |->
        [name |-> raw[i].name,
         list_of_pubs |-> raw[i].publications,
         summary |-> Summarize(raw[i].publications)]]
\* generate_justification.generate_justification: the prose it returns
Explain(q, summary, percent) == <<"fit", q.title, summary[1], percent>>

(* ------------------------------ inputs -------------------------------- *)
PubLists == SeqsUpTo(Publications, MaxPubs)
T1 == [title |-> "T1", abstract |-> "X"]
T2 == [title |-> "T2", abstract |-> "X"]
RecordA == [name |-> "A", publications |-> <<T1>>]
RecordB == [name |-> "B", publications |-> <<T2, T1>>]
RecordC == [name |-> "C", publications |-> <<>>]
NoPublications == [name |-> "D"]
NoName == [publications |-> <<T1>>]
\* the raw database files the runs are given: well-formed ones (one to three
\* authors, an author without publications) and the two malformed kinds
RawDatabases ==
    { <<RecordA>>, <<RecordA, RecordB>>, <<RecordB, RecordA>>, <<RecordA, RecordC>>,
      <<RecordC>>, <<RecordA, RecordA, RecordB>>, <<RecordA, NoPublications>>,
      <<NoName>> }
QueryDicts ==
    { [title |-> "Q", abstract |-> "Z"], [title |-> "Q", abstract |-> "Y"],
      [title |-> "Q"], [abstract |-> "Z"] }
QueryTexts == { build_query([title |-> "Q", abstract |-> a]) : a \in {"Z", "Y"} }
OutputDirs == {"./log/"}
\* os.path.join(args.output_path, f"output_{args.author_embedding}.txt")
OutputPathWithoutPolicy(dir, policy) == <<dir, "output", "", ".txt">>
OutputPath(dir, policy) == <<dir, "output_", policy, ".txt">>
OutputFiles == {OutputPath(d, p) : d \in OutputDirs, p \in Policies}

(* ------------------------------ round --------------------------------- *)
\* round(score * 100) of a score in thousandths: Python rounds halves to even
RoundWithoutPercent(score) == score \div ScoreScale
RoundPercent(score) ==
    LET q == score \div 10
        r == score % 10
    IN  IF r < 5 THEN q
        ELSE IF r > 5 THEN q + 1
        ELSE IF q % 2 = 0 THEN q ELSE q + 1

(* ------------------------------- state -------------------------------- *)
VARIABLES
    pc,                   \* where the run (or the direct call) stands
    runs,                 \* number of runs of main() started so far
    rawdb,                \* the raw database file at args.data_path
    cache,                \* the file log/author_profile.json
    outputs,              \* the output files, by path
    written,              \* which policy opened which output path, over all runs
    args,                 \* args.author_embedding, args.output_path
    query_dict,           \* the loaded query file
    branch,               \* "build" or "load": the branch taken at line 115
    io,                   \* what this run has done to the raw database and the files
    database,             \* the author profiles of this run
    query,                \* build_query(query_dict)
    list_of_authors,      \* the texts handed to compute_fitness
    encode_calls,         \* the batches passed to model.encode, in call order
    query_embedding,
    low, high,            \* slice bounds per author (aggregate)
    all_pub_embedding,
    corpus_embedding,
    sorted_id_and_scores, \* what compute_fitness returns
    calls,                \* the generate_justification calls issued, in order
    results,              \* the Results accumulated by the loop
    error                 \* the exception that ended the run, "" if none

files == <<rawdb, cache, outputs, written>>
locals == <<args, query_dict, branch, io, database, query, list_of_authors, calls, results>>
fitness == <<encode_calls, query_embedding, low, high, all_pub_embedding,
             corpus_embedding, sorted_id_and_scores>>
vars == <<pc, runs, files, locals, fitness, error>>

NoArgs == [author_embedding |-> "", output_path |-> ""]
NoQuery == [unset |-> ""]
NoIO == [read_db |-> FALSE, build_called |-> FALSE, cache_opened |-> FALSE,
         output_opened |-> FALSE]
NoFile == [exists |-> FALSE, data |-> <<>>, closed |-> FALSE]

Terminal == {"done", "failed", "killed"}

BlankLocals ==
    /\ args = NoArgs /\ query_dict = NoQuery /\ branch = "" /\ io = NoIO
    /\ database = <<>> /\ query = <<>> /\ list_of_authors = <<>>
    /\ calls = <<>> /\ results = <<>>
BlankFitness ==
    /\ encode_calls = <<>> /\ query_embedding = NaNVec /\ low = <<>> /\ high = <<>>
    /\ all_pub_embedding = <<>> /\ corpus_embedding = <<>>
    /\ sorted_id_and_scores = <<>>

Init ==
    /\ pc = "start" /\ runs = 0 /\ error = ""
    /\ rawdb \in RawDatabases
    /\ cache = NoFile
    /\ outputs = [f \in OutputFiles |-> NoFile]
    /\ written = {}
    /\ BlankLocals /\ BlankFitness

(* --------------------------- compute_fitness -------------------------- *)
PubText(pub) == <<"Title: ", pub.title, "\nAbstract: ", pub.abstract>>
n_pub_per_author(authors) == [i \in 1..Len(authors) |-> Len(authors[i])]
\* np.cumsum([0] + n[:-1]) and np.cumsum(n)
SliceLowWithoutZero(n) == cumsum(SubSeq(n, 1, Len(n) - 1))
SliceLow(n) == cumsum(<<0>> \o SubSeq(n, 1, Len(n) - 1))
SliceHigh(n) == cumsum(n)
stacked_pubs(authors) ==
    LET flat == Flatten(authors) IN [k \in 1..Len(flat) |-> PubText(flat[k])]
\* [torch.mean(all_pub_embedding[l:h], dim=0) for l, h in zip(low, high)]
AggregateSlices(emb, lo, hi) ==
    [i \in 1..Len(lo) |-> TorchMean(Slice(emb, lo[i], hi[i]))]

\* line 84: the query is embedded before the policy is looked at
CF_EncodeQuery ==
    /\ pc = "cf_encode_query"
    /\ query_embedding' = Encode(query)
    /\ encode_calls' = Append(encode_calls, <<query>>)
    /\ pc' = "cf_policy"
    /\ UNCHANGED <<runs, files, locals, error, low, high, all_pub_embedding,
                   corpus_embedding, sorted_id_and_scores>>

\* line 85: if args.author_embedding == "aggregate"
IsAggregateElse(policy) == policy # "summarize"
IsAggregate(policy) == policy = "aggregate"

\* lines 85-95
CF_Aggregate ==
    /\ pc = "cf_policy"
    /\ IsAggregate(args.author_embedding)
    /\ low' = SliceLow(n_pub_per_author(list_of_authors))
    /\ high' = SliceHigh(n_pub_per_author(list_of_authors))
    /\ all_pub_embedding' = EncodeBatch(stacked_pubs(list_of_authors))
    /\ encode_calls' = Append(encode_calls, stacked_pubs(list_of_authors))
    /\ corpus_embedding' = AggregateSlices(all_pub_embedding', low', high')
    /\ pc' = "cf_search"
    /\ UNCHANGED <<runs, files, locals, error, query_embedding, sorted_id_and_scores>>

\* lines 96-97
CF_Summarize ==
    /\ pc = "cf_policy"
    /\ args.author_embedding = "summarize"
    /\ corpus_embedding' = EncodeBatch(list_of_authors)
    /\ encode_calls' = Append(encode_calls, list_of_authors)
    /\ pc' = "cf_search"
    /\ UNCHANGED <<runs, files, locals, error, query_embedding, low, high,
                   all_pub_embedding, sorted_id_and_scores>>

\* lines 98-99: raise NotImplementedError
CF_Unknown ==
    /\ pc = "cf_policy"
    /\ args.author_embedding \notin Policies
    /\ error' = "NotImplementedError"
    /\ pc' = "cf_raise"
    /\ UNCHANGED <<runs, files, locals, fitness>>

\* encode([]) of an empty batch: no author has a publication
EmptyBatch == IsAggregate(args.author_embedding) /\ all_pub_embedding = <<>>

\* line 100: semantic_search(query_embedding, corpus_embedding, top_k = N)[0]
CF_Search ==
    /\ pc = "cf_search"
    /\ ~EmptyBatch
    /\ LET scores == cos_scores(query_embedding, corpus_embedding)
       IN  \E order \in TopkOrders(Len(corpus_embedding)) :
              sorted_id_and_scores' = top_k_sorted(scores, order)
    /\ pc' = "cf_return"
    /\ UNCHANGED <<runs, files, locals, error, encode_calls, query_embedding, low, high,
                   all_pub_embedding, corpus_embedding>>

\* lines 92-100 when no author has a publication: encode([]) has no rows to stack
\* (it raises, or gives a tensor without the embedding dimension, and then the
\* similarity product of line 100 raises)
CF_EmptyBatchError ==
    /\ pc = "cf_search"
    /\ EmptyBatch
    /\ error' = "RuntimeError"
    /\ pc' = "cf_raise"
    /\ UNCHANGED <<runs, files, locals, fitness>>

compute_fitness ==
    \/ CF_EncodeQuery
    \/ CF_Aggregate
    \/ CF_Summarize
    \/ CF_Unknown
    \/ CF_Search
    \/ CF_EmptyBatchError

(* ---------------- compute_fitness called on its own ------------------- *)
AuthorTexts(policy) ==
    IF policy = "summarize" THEN NonEmptySeqsUpTo(Summaries, MaxAuthors)
    ELSE NonEmptySeqsUpTo(PubLists, MaxPubAuthors)

InitFitness ==
    /\ pc = "cf_encode_query" /\ runs = 0 /\ error = ""
    /\ rawdb = <<>>
    /\ cache = NoFile
    /\ outputs = [f \in OutputFiles |-> NoFile]
    /\ written = {}
    /\ \E policy \in AnyPolicy :
          /\ args = [author_embedding |-> policy, output_path |-> ""]
          /\ list_of_authors \in AuthorTexts(policy)
    /\ query \in QueryTexts
    /\ query_dict = NoQuery /\ branch = "" /\ io = NoIO /\ database = <<>>
    /\ calls = <<>> /\ results = <<>>
    /\ BlankFitness

\* an exception raised inside compute_fitness reaches the caller
FitnessRaised ==
    /\ pc = "cf_raise"
    /\ pc' = "failed"
    /\ UNCHANGED <<runs, files, locals, fitness, error>>

NextFitness == compute_fitness \/ FitnessRaised
SpecFitness == InitFitness /\ [][NextFitness]_vars

(* -------------------------------- main -------------------------------- *)
ResetRun ==
    /\ query_dict' = NoQuery /\ branch' = "" /\ io' = NoIO /\ database' = <<>>
    /\ query' = <<>> /\ list_of_authors' = <<>> /\ calls' = <<>> /\ results' = <<>>
    /\ encode_calls' = <<>> /\ query_embedding' = NaNVec /\ low' = <<>> /\ high' = <<>>
    /\ all_pub_embedding' = <<>> /\ corpus_embedding' = <<>>
    /\ sorted_id_and_scores' = <<>>

Fail(exception) ==
    /\ error' = exception
    /\ pc' = "failed"

\* lines 103-106: a new process; argparse accepts only the two policies
get_args ==
    /\ pc \in {"start"} \cup Terminal
    /\ runs < MaxRuns
    /\ runs' = runs + 1
    /\ ResetRun
    /\ \E policy \in AnyPolicy, dir \in OutputDirs :
          \/ /\ policy \in Policies
             /\ args' = [author_embedding |-> policy, output_path |-> dir]
             /\ error' = ""
             /\ pc' = "load_query"
          \/ /\ policy \notin Policies
             /\ args' = NoArgs
             /\ Fail("SystemExit")
    /\ UNCHANGED files

\* lines 109-112
LoadQuery ==
    /\ pc = "load_query"
    /\ query_dict' \in QueryDicts
    /\ pc' = "check_cache"
    /\ UNCHANGED <<runs, files, args, branch, io, database, query, list_of_authors,
                   calls, results, fitness, error>>

\* line 115: os.path.exists("log/author_profile.json")
CacheExistsNever(file) == FALSE
CacheExists(file) == file.exists
CheckCache ==
    /\ pc = "check_cache"
    /\ IF CacheExists(cache)
       THEN branch' = "load" /\ pc' = "load_cache"
       ELSE branch' = "build" /\ pc' = "read_db"
    /\ UNCHANGED <<runs, files, args, query_dict, io, database, query, list_of_authors,
                   calls, results, fitness, error>>

\* the cache file opened before the profiles are built
ReadAndBuildIntoOpenFile ==
    /\ pc = "read_db"
    /\ \/ /\ \A i \in 1..Len(rawdb) : WellFormed(rawdb[i])
          /\ database' = build_author_profile(rawdb)
          /\ pc' = "open_cache"
          /\ UNCHANGED error
       \/ /\ \E i \in 1..Len(rawdb) : ~WellFormed(rawdb[i])
          /\ database' = <<>>
          /\ Fail("KeyError in build_author_profile")
    /\ cache' = [exists |-> TRUE, data |-> <<>>, closed |-> FALSE]
    /\ io' = [io EXCEPT !.read_db = TRUE, !.build_called = TRUE, !.cache_opened = TRUE]
    /\ UNCHANGED <<runs, rawdb, outputs, written, args, query_dict, branch, query,
                   list_of_authors, calls, results, fitness>>

\* lines 116-119: read_jsonl, then build_author_profile
ReadAndBuild ==
    /\ pc = "read_db"
    /\ \/ /\ \A i \in 1..Len(rawdb) : WellFormed(rawdb[i])
          /\ database' = build_author_profile(rawdb)
          /\ pc' = "open_cache"
          /\ UNCHANGED error
       \/ /\ \E i \in 1..Len(rawdb) : ~WellFormed(rawdb[i])
          /\ database' = <<>>
          /\ Fail("KeyError in build_author_profile")
    /\ io' = [io EXCEPT !.read_db = TRUE, !.build_called = TRUE]
    /\ UNCHANGED <<runs, files, args, query_dict, branch, query, list_of_authors,
                   calls, results, fitness>>

\* line 120: open(..., "w") creates the file, empty
OpenCache ==
    /\ pc = "open_cache"
    /\ cache' = [exists |-> TRUE, data |-> <<>>, closed |-> FALSE]
    /\ io' = [io EXCEPT !.cache_opened = TRUE]
    /\ pc' = "dump"
    /\ UNCHANGED <<runs, rawdb, outputs, written, args, query_dict, branch, database, query,
                   list_of_authors, calls, results, fitness, error>>

\* line 121: json.dump writes the list piece by piece, the closing bracket last
DumpItem ==
    /\ pc = "dump"
    /\ Len(cache.data) < Len(database)
    /\ cache' = [cache EXCEPT !.data = Append(@, database[Len(@) + 1])]
    /\ UNCHANGED <<pc, runs, rawdb, outputs, written, locals, fitness, error>>

DumpClose ==
    /\ pc = "dump"
    /\ Len(cache.data) = Len(database)
    /\ cache' = [cache EXCEPT !.closed = TRUE]
    /\ pc' = "build_query"
    /\ UNCHANGED <<runs, rawdb, outputs, written, locals, fitness, error>>

\* lines 124-125: json.load; a file cut before its closing bracket does not parse
LoadCache ==
    /\ pc = "load_cache"
    /\ IF cache.closed
       THEN database' = cache.data /\ pc' = "build_query" /\ UNCHANGED error
       ELSE database' = <<>> /\ Fail("JSONDecodeError")
    /\ UNCHANGED <<runs, files, args, query_dict, branch, io, query, list_of_authors,
                   calls, results, fitness>>

\* line 128
BuildQuery ==
    /\ pc = "build_query"
    /\ IF HasKeys(query_dict)
       THEN query' = build_query(query_dict) /\ pc' = "select" /\ UNCHANGED error
       ELSE query' = <<>> /\ Fail("KeyError in build_query")
    /\ UNCHANGED <<runs, files, args, query_dict, branch, io, database, list_of_authors,
                   calls, results, fitness>>

\* lines 131-133: pick the text per author, call compute_fitness
SelectKey(policy) == IF policy = "summarize" THEN "summary" ELSE "list_of_pubs"
SelectTexts ==
    /\ pc = "select"
    /\ list_of_authors' =
          [i \in 1..Len(database) |-> database[i][SelectKey(args.author_embedding)]]
    /\ pc' = "cf_encode_query"
    /\ UNCHANGED <<runs, files, args, query_dict, branch, io, database, query,
                   calls, results, fitness, error>>

\* lines 136-140: the next ranked entry; round() of a NaN score raises ValueError
NextItem == sorted_id_and_scores[Len(results) + 1]
JustifyCall ==
    /\ pc = "cf_return"
    /\ Len(results) < Len(sorted_id_and_scores)
    /\ IF NextItem.score = NaN
       THEN Fail("ValueError") /\ UNCHANGED calls
       ELSE /\ calls' = Append(calls,
                   [query |-> query_dict,
                    summary |-> database[NextItem.corpus_id + 1].summary,
                    percent |-> RoundPercent(NextItem.score)])
            /\ pc' = "awaiting"
            /\ UNCHANGED error
    /\ UNCHANGED <<runs, files, args, query_dict, branch, io, database, query,
                   list_of_authors, results, fitness>>

\* lines 140-145: the call returns and the Result is appended
JustifyReturn ==
    /\ pc = "awaiting"
    /\ results' = Append(results,
          [name |-> database[NextItem.corpus_id + 1].name,
           fitness |-> NextItem.score,
           explanation |-> Explain(calls[Len(calls)].query, calls[Len(calls)].summary,
                                   calls[Len(calls)].percent)])
    /\ pc' = "cf_return"
    /\ UNCHANGED <<runs, files, args, query_dict, branch, io, database, query,
                   list_of_authors, calls, fitness, error>>

\* the Results so far flushed to the output file when the call raises
JustifyFailFlushing ==
    /\ pc = "awaiting"
    /\ Fail("JustificationError")
    /\ LET path == OutputPath(args.output_path, args.author_embedding)
       IN  /\ outputs' = [outputs EXCEPT ![path] =
                             [exists |-> TRUE, data |-> results, closed |-> TRUE]]
           /\ written' = written \cup {[policy |-> args.author_embedding, path |-> path]}
    /\ io' = [io EXCEPT !.output_opened = TRUE]
    /\ UNCHANGED <<runs, rawdb, cache, args, query_dict, branch, database, query,
                   list_of_authors, calls, results, fitness>>

\* line 140: the call raises; nothing catches it
JustifyFail ==
    /\ pc = "awaiting"
    /\ Fail("JustificationError")
    /\ UNCHANGED <<runs, files, locals, fitness>>

\* line 147: open(output path, "w") once the loop is over
OpenOutput ==
    /\ pc = "cf_return"
    /\ Len(results) = Len(sorted_id_and_scores)
    /\ LET path == OutputPath(args.output_path, args.author_embedding)
       IN  /\ outputs' = [outputs EXCEPT ![path] =
                             [exists |-> TRUE, data |-> <<>>, closed |-> FALSE]]
           /\ written' = written \cup {[policy |-> args.author_embedding, path |-> path]}
    /\ io' = [io EXCEPT !.output_opened = TRUE]
    /\ pc' = "write_output"
    /\ UNCHANGED <<runs, rawdb, cache, args, query_dict, branch, database, query,
                   list_of_authors, calls, results, fitness, error>>

\* lines 148-149: one json.dumps(item) line per Result, then the file is closed
WriteOutput ==
    /\ pc = "write_output"
    /\ LET path == OutputPath(args.output_path, args.author_embedding)
       IN  outputs' = [outputs EXCEPT ![path] =
                          [exists |-> TRUE, data |-> results, closed |-> TRUE]]
    /\ pc' = "done"
    /\ UNCHANGED <<runs, rawdb, cache, written, locals, fitness, error>>

\* the process is killed between two steps; its memory is gone, the files stay
Interrupt ==
    /\ pc \notin Terminal \cup {"start"}
    /\ pc' = "killed"
    /\ args' = NoArgs
    /\ ResetRun
    /\ UNCHANGED <<runs, files, error>>

\* the raw database file is edited between two runs
ChangeDatabase ==
    /\ pc \in {"start"} \cup Terminal
    /\ runs < MaxRuns
    /\ rawdb' \in RawDatabases \ {rawdb}
    /\ UNCHANGED <<pc, runs, cache, outputs, written, locals, fitness, error>>

Next ==
    \/ get_args
    \/ LoadQuery
    \/ CheckCache
    \/ ReadAndBuild
    \/ OpenCache
    \/ DumpItem
    \/ DumpClose
    \/ LoadCache
    \/ BuildQuery
    \/ SelectTexts
    \/ CF_EncodeQuery
    \/ CF_Aggregate
    \/ CF_Summarize
    \/ CF_Search
    \/ CF_EmptyBatchError
    \/ FitnessRaised
    \/ JustifyCall
    \/ JustifyReturn
    \/ JustifyFail
    \/ OpenOutput
    \/ WriteOutput
    \/ Interrupt
    \/ ChangeDatabase

Spec == Init /\ [][Next]_vars

(* ====================== properties of compute_fitness ================= *)
Returned == pc = "cf_return"
RankedIds == {sorted_id_and_scores[r].corpus_id : r \in 1..Len(sorted_id_and_scores)}
PoolSize == Len(list_of_authors)

\* C1: under either policy the ranking compute_fitness returns has the pool's
\* size, holds every author index 0..N-1 exactly once, and its scores never
\* increase from one entry to the next.
C1_FullSortedRanking ==
    Returned =>
        /\ Len(sorted_id_and_scores) = PoolSize
        /\ RankedIds = 0..(PoolSize - 1)
        /\ \A r \in 1..(Len(sorted_id_and_scores) - 1) :
              FloatGe(sorted_id_and_scores[r].score, sorted_id_and_scores[r + 1].score)

\* C2: of two authors with equal scores the one with the lower index is ranked
\* first.
C2_TiesByAscendingIndex ==
    Returned =>
        \A r1, r2 \in 1..Len(sorted_id_and_scores) :
            (r1 < r2 /\ FloatEq(sorted_id_and_scores[r1].score,
                                sorted_id_and_scores[r2].score))
                => sorted_id_and_scores[r1].corpus_id < sorted_id_and_scores[r2].corpus_id

\* the publications of the authors before author i, counted directly
PubsBefore(i) == Len(Flatten(SubSeq(list_of_authors, 1, i - 1)))
\* author i's publications embedded on their own, then averaged
OwnMean(i) ==
    TorchMean([k \in 1..Len(list_of_authors[i]) |-> Encode(PubText(list_of_authors[i][k]))])
Aggregated == args.author_embedding = "aggregate" /\ pc \in {"cf_search", "cf_return"}

\* C3: under 'aggregate' the slice of author i starts at c_0 + ... + c_(i-1) and
\* ends c_i later; the slices are contiguous, in author order and cover the batch;
\* the vector of an author with c_i >= 1 is the mean of that author's own
\* publication embeddings, as if they had been embedded apart from the others.
C3_SlicesAreOwnPublications ==
    Aggregated =>
        /\ Len(low) = PoolSize /\ Len(high) = PoolSize
        /\ Len(corpus_embedding) = PoolSize
        /\ Len(all_pub_embedding) = Len(Flatten(list_of_authors))
        /\ high[PoolSize] = Len(all_pub_embedding)
        /\ \A i \in 1..PoolSize :
              /\ low[i] = PubsBefore(i)
              /\ high[i] = low[i] + Len(list_of_authors[i])
              /\ i < PoolSize => high[i] = low[i + 1]
              /\ Len(list_of_authors[i]) >= 1 =>
                    /\ corpus_embedding[i] = OwnMean(i)
                    /\ corpus_embedding[i][3] = Len(list_of_authors[i])

C3_Witness ==
    /\ Aggregated /\ Returned
    /\ PoolSize = 2
    /\ Len(list_of_authors[1]) = 1 /\ Len(list_of_authors[2]) = 2
    /\ corpus_embedding[1] # corpus_embedding[2]
    /\ low = <<0, 1>> /\ high = <<1, 3>>

\* C8 as stated: with an unknown policy the engine raises before any embedding
\* provider call; no ranking, no justification call, no output file.
C8_RaisesBeforeAnyProviderCall ==
    (args.author_embedding \notin Policies /\ pc \in {"cf_raise", "failed"}) =>
        /\ encode_calls = <<>>
        /\ sorted_id_and_scores = <<>>
        /\ calls = <<>>
        /\ \A f \in OutputFiles : ~outputs[f].exists

\* C8 amended: with an unknown policy the engine raises NotImplementedError after
\* the query has been embedded (the one provider call of line 84) and before any
\* author text is embedded or any similarity is computed; no ranking is returned,
\* no justification call is made and no output file is written.
C8_RaisesAfterQueryEmbedding ==
    args.author_embedding \notin Policies =>
        /\ pc \in {"cf_encode_query", "cf_policy", "cf_raise", "failed"}
        /\ pc \in {"cf_raise", "failed"} =>
              /\ error = "NotImplementedError"
              /\ encode_calls = <<<<query>>>>
              /\ query_embedding = Encode(query)
              /\ all_pub_embedding = <<>> /\ corpus_embedding = <<>>
              /\ sorted_id_and_scores = <<>>
              /\ calls = <<>>
              /\ \A f \in OutputFiles : ~outputs[f].exists

C8_Witness ==
    /\ args.author_embedding = "average"
    /\ pc = "failed" /\ error = "NotImplementedError"
    /\ Len(encode_calls) = 1

(* ========================== properties of main ======================== *)
ThisOutput == outputs[OutputPath(args.output_path, args.author_embedding)]
AuthorAt(r) == database[sorted_id_and_scores[r].corpus_id + 1]
\* what the justification service returned to call k
Returned_explanation(k) == Explain(calls[k].query, calls[k].summary, calls[k].percent)
\* p is score * 100 rounded to the nearest integer, halves to the even one
IsRoundedPercent(p, score) ==
    /\ 10 * p - score <= 5 /\ score - 10 * p <= 5
    /\ (10 * p - score = 5 \/ score - 10 * p = 5) => p % 2 = 0

\* C4: a run that finds log/author_profile.json present takes the load branch: it
\* never reads the raw database, never calls build_author_profile, leaves the cache
\* file as it is, and works on exactly the cached author list, whatever the raw
\* database holds.
C4_PresentCacheIsReused ==
    [][ /\ (pc = "check_cache" /\ cache.exists /\ pc' # "killed")
            => (branch' = "load" /\ pc' = "load_cache")
        /\ branch = "load" => cache' = cache
        /\ branch' = "load" => (~io'.read_db /\ ~io'.build_called /\ ~io'.cache_opened)
        /\ (pc = "load_cache" /\ pc' = "build_query") => database' = cache.data
        /\ (branch = "load" /\ branch' = "load" /\ pc # "load_cache" /\ pc' # "killed")
            => database' = database
      ]_vars

C4_Witness ==
    /\ branch = "load" /\ pc = "done"
    /\ database = cache.data
    /\ \A i \in 1..Len(rawdb) : WellFormed(rawdb[i])
    /\ build_author_profile(rawdb) # database

\* C5: no run takes the load branch on a cache file that holds only part of the
\* author list (one left behind by a run interrupted while it was writing it).
C5_NoPartialCacheLoaded ==
    ~(branch = "load" /\ cache.exists /\ ~cache.closed)

C7_OutputInRankOrderPerPolicy ==
    /\ pc = "done" =>
          /\ ThisOutput.exists /\ ThisOutput.closed
          /\ Len(ThisOutput.data) = Len(database)
          /\ Len(sorted_id_and_scores) = Len(database)
          /\ \A r \in 1..Len(ThisOutput.data) :
                /\ ThisOutput.data[r].name = AuthorAt(r).name
                /\ ThisOutput.data[r].fitness = sorted_id_and_scores[r].score
                /\ ThisOutput.data[r].explanation = Returned_explanation(r)
    /\ \A w1, w2 \in written :
          (w1.policy # w2.policy /\ w1.path[1] = w2.path[1]) => w1.path # w2.path

C7_Witness ==
    /\ pc = "done"
    /\ Len(ThisOutput.data) = 2
    /\ ThisOutput.data[1].name = "B"
    /\ \E w1, w2 \in written : w1.policy # w2.policy

C10_FailedCallAbortsRun ==
    [][ /\ (pc' = "failed" /\ error' = "JustificationError") =>
              /\ Len(calls') = Len(results') + 1
              /\ Len(calls') <= Len(sorted_id_and_scores')
              /\ ~io'.output_opened
              /\ outputs' = outputs
        /\ (pc = "failed" /\ error = "JustificationError") =>
              (calls' = calls \/ calls' = <<>>) /\ outputs' = outputs
      ]_vars

C10_Witness ==
    /\ pc = "failed" /\ error = "JustificationError"
    /\ Len(results) >= 1 /\ Len(calls) = Len(results) + 1
    /\ Len(calls) < Len(sorted_id_and_scores)
    /\ ~ThisOutput.exists

=============================================================================
